---- MODULE Spec2Model ----
(***************************************************************************)
(* Model of scripts/import_volvo_to_supabase.py: the one-shot importer     *)
(* that reads product rows from SQLite, picks one canonical row per        *)
(* OE-nummer, renders a chunk per canonical row, requests embeddings per   *)
(* batch and bulk-inserts each batch into the Supabase knowledge base.     *)
(*                                                                         *)
(* Conventions: Python None and SQL NULL are the empty tuple <<>>, any     *)
(* other value v is the one-element tuple <<v>>.  Where SQL leaves the     *)
(* order of rows with equal sort keys unspecified, the model takes every   *)
(* order.  The fitment and alternative-name sections of a chunk are not    *)
(* modelled (format_fitments, format_alternative_names).                   *)
(***************************************************************************)
EXTENDS Integers, Sequences, FiniteSets, TLC

VARIABLES
    env,            \* process environment: the three variables and the db file
    db,             \* table products: a sequence of rows, row i has id i
    BATCH_SIZE,     \* embeddings per batch
    pc,             \* position of the process
    exit_code,      \* None while running, <<status>> after exit
    cursor,         \* ids of the canonical rows not yet fetched
    result,         \* ids of every row the source query streams, in order
    batch_chunks,   \* the batch being accumulated
    processed,      \* counter of rows turned into chunks
    inserted,       \* counter of records the store reported
    calls,          \* log of the external calls, in issue order
    sink            \* table knowledge_base: the records committed

vars == <<env, db, BATCH_SIZE, pc, exit_code, cursor, result, batch_chunks,
          processed, inserted, calls, sink>>

\* ---------------------------------------------------------------- bounds
MaxRows == 4
MaxBatchSize == 2
MaxSelectRows == 3
MaxVariants == 3

\* ------------------------------------------------------------ primitives
None == <<>>
Some(v) == <<v>>

Min(a, b) == IF a < b THEN a ELSE b

Take(s, n) == SubSeq(s, 1, Min(n, Len(s)))

RECURSIVE SeqMin(_)
SeqMin(s) == IF Len(s) = 1 THEN s[1]
             ELSE LET m == SeqMin(Tail(s)) IN IF s[1] < m THEN s[1] ELSE m

RECURSIVE SeqMax(_)
SeqMax(s) == IF Len(s) = 1 THEN s[1]
             ELSE LET m == SeqMax(Tail(s)) IN IF s[1] > m THEN s[1] ELSE m

InSeq(x, s) == \E i \in 1..Len(s) : s[i] = x

\* Python truthiness of an optional string / an optional number
TruthyStr(x) == x # None /\ x[1] # ""
TruthyNum(x) == x # None /\ x[1] # 0

\* ----------------------------------------------------------- configuration
Getenv(name, default) == IF env[name] = None THEN default ELSE env[name][1]

SUPABASE_URL == Getenv("SUPABASE_URL", "YOUR_SUPABASE_URL")
SUPABASE_KEY == Getenv("SUPABASE_SERVICE_ROLE_KEY", "YOUR_SERVICE_ROLE_KEY")
OPENAI_API_KEY == Getenv("OPENAI_API_KEY", "YOUR_OPENAI_KEY")

MAX_PRODUCTS == None

\* -------------------------------------------------------------- get_all_names
CatalogFields == <<"kl_namn", "folkrace_namn", "vp_namn", "cvr_namn", "fordon_namn">>

AppendIfTruthy(names, x) == IF TruthyStr(x) THEN Append(names, x[1]) ELSE names

RECURSIVE CollectCatalogNames(_, _, _)
CollectCatalogNames(row, fields, names) ==
    IF fields = <<>> THEN names
    ELSE LET x == row[Head(fields)]
         IN CollectCatalogNames(row, Tail(fields),
                IF TruthyStr(x) /\ ~InSeq(x[1], names)
                THEN Append(names, x[1]) ELSE names)

NameKept(n) == n # "" /\ n # "NULL" /\ Len(n) > 3

get_all_names(row) ==
    LET primary == AppendIfTruthy(AppendIfTruthy(AppendIfTruthy(<<>>,
                       row.normalized_name), row.swedish_translation),
                       row.skandix_name_eng)
        names == CollectCatalogNames(row, CatalogFields, primary)
    IN SelectSeq(names, NameKept)

\* ------------------------------------------------------- eligibility, ranking
Rows == {db[i] : i \in DOMAIN db}

Eligible(r) == r.has_fitments = 1 \/ r.translation_status = Some("verified")

SqlBool(b) == IF b THEN 1 ELSE 0

\* translation_status = 'verified' is NULL for a NULL status; NULL sorts last
\* under DESC
VerifiedKey(r) == IF r.translation_status = None THEN 0 - 1
                  ELSE SqlBool(r.translation_status[1] = "verified")

RankKey(r) == <<r.has_fitments, VerifiedKey(r),
                SqlBool(r.normalized_name # None),
                SqlBool(r.skandix_price # None)>>

\* a sorts strictly before b under the inner ORDER BY (all keys DESC)
RankedBefore(a, b) ==
    LET ka == RankKey(a)
        kb == RankKey(b)
    IN \E i \in 1..4 : /\ ka[i] > kb[i]
                       /\ \A j \in 1..(i - 1) : ka[j] = kb[j]

Group(oe) == {r \in Rows : r.oe_nummer = oe}

\* the rows ORDER BY ... LIMIT 1 may return for the group
BestRows(oe) == {r \in Group(oe) : \A q \in Group(oe) : ~RankedBefore(q, r)}

RECURSIVE Selections(_)
Selections(oes) ==
    IF oes = {} THEN {{}}
    ELSE LET oe == CHOOSE o \in oes : TRUE
         IN {s \cup {b.id} : s \in Selections(oes \ {oe}), b \in BestRows(oe)}

\* outer ORDER BY has_fitments DESC, id
OuterBefore(a, b) == \/ a.has_fitments > b.has_fitments
                     \/ a.has_fitments = b.has_fitments /\ a.id < b.id

RECURSIVE SortOuter(_)
SortOuter(ids) ==
    IF ids = {} THEN <<>>
    ELSE LET first == CHOOSE i \in ids :
                          \A j \in ids \ {i} : OuterBefore(db[i], db[j])
         IN <<first>> \o SortOuter(ids \ {first})

total_products ==
    IF TruthyNum(MAX_PRODUCTS) THEN Min(Len(db), MAX_PRODUCTS[1]) ELSE Len(db)

\* every result the source query may stream, as a sequence of row ids
QueryResults ==
    {Take(SortOuter({i \in s : Eligible(db[i])}), total_products) :
        s \in Selections({r.oe_nummer : r \in Rows})}

\* ------------------------------------------------------- get_product_variants
PriceBefore(p, q) == \/ p = None /\ q # None
                     \/ p # None /\ q # None /\ p[1] < q[1]

\* ORDER BY has_fitments DESC, skandix_price ASC
VariantBefore(a, b) ==
    \/ a.has_fitments > b.has_fitments
    \/ a.has_fitments = b.has_fitments /\ PriceBefore(a.skandix_price, b.skandix_price)

RECURSIVE Orders(_)
Orders(S) ==
    IF S = {} THEN {<<>>}
    ELSE UNION {{<<m>> \o t : t \in Orders(S \ {m})} :
                   m \in {r \in S : \A q \in S : ~VariantBefore(q, r)}}

\* the query without its eligibility condition
get_product_variants_Unfiltered(oe_nummer) ==
    Orders(Group(oe_nummer))

\* the query with only the has_fitments half of its eligibility condition
get_product_variants_FitmentsOnly(oe_nummer) ==
    Orders({r \in Group(oe_nummer) : r.has_fitments = 1})

get_product_variants(oe_nummer) ==
    Orders({r \in Group(oe_nummer) : Eligible(r)})

\* ---------------------------------------------------------------- create_chunk
PrimaryName(row) ==
    IF TruthyStr(row.normalized_name) THEN row.normalized_name[1]
    ELSE IF TruthyStr(row.swedish_translation) THEN row.swedish_translation[1]
    ELSE IF TruthyStr(row.skandix_name_eng) THEN row.skandix_name_eng[1]
    ELSE "Okänd produkt"

NamesSection(row) ==
    LET all_names == get_all_names(row)
    IN IF all_names # <<>> THEN Take(all_names, 5) ELSE <<PrimaryName(row)>>

VariantPrices(variants) ==
    LET priced == SelectSeq(variants, LAMBDA v : TruthyNum(v.skandix_price))
    IN [i \in 1..Len(priced) |-> priced[i].skandix_price[1]]

\* the three renderings of the PRIS line; `form` is the format string
PriceText(form, amount, count) == [form |-> form, amount |-> amount, count |-> count]

PriceSection(variants) ==
    LET prices == VariantPrices(variants)
    IN IF prices # <<>>
       THEN IF Len(prices) > 1
            THEN PriceText("Från {:.2f} SEK (finns {} varianter)",
                           Some(SeqMin(prices)), Some(Len(variants)))
            ELSE PriceText("{:.2f} SEK", Some(prices[1]), None)
       ELSE PriceText("Pris saknas", None, None)

VariantsSection(variants) ==
    IF Len(variants) > 1
    THEN [i \in 1..Len(variants) |->
            [n |-> i,
             var_name |-> IF TruthyStr(variants[i].normalized_name)
                          THEN variants[i].normalized_name[1]
                          ELSE IF TruthyStr(variants[i].skandix_name_eng)
                               THEN variants[i].skandix_name_eng[1]
                               ELSE "Variant",
             var_price |-> IF TruthyNum(variants[i].skandix_price)
                           THEN PriceText("{:.2f} SEK", variants[i].skandix_price, None)
                           ELSE PriceText("Pris saknas", None, None)]]
    ELSE <<>>

Metadata(row, variants) ==
    LET prices == VariantPrices(variants)
    IN [product_id |-> row.id,
        oe_nummer |-> row.oe_nummer,
        price_from |-> IF prices # <<>> THEN Some(SeqMin(prices)) ELSE None,
        price_to |-> IF prices # <<>> THEN Some(SeqMax(prices)) ELSE None,
        variant_count |-> Len(variants),
        variant_ids |-> [i \in 1..Len(variants) |-> variants[i].id],
        has_fitments |-> row.has_fitments # 0,
        verified |-> row.translation_status = Some("verified")]

create_chunk(row, variants) ==
    [title |-> PrimaryName(row),
     content |-> [primary_name |-> PrimaryName(row),
                  names_section |-> NamesSection(row),
                  oe_section |-> row.oe_nummer,
                  price |-> PriceSection(variants),
                  variants_section |-> VariantsSection(variants)],
     metadata |-> Metadata(row, variants),
     embedding |-> None]

\* ------------------------------------------------------------ external services
\* the embedding API: one vector per text, in the order of the texts
Embedding(text) == <<"embedding", text>>

EmbeddingsCreate(texts) == [i \in 1..Len(texts) |-> Embedding(texts[i])]

ChunkIds(chunks) == [i \in 1..Len(chunks) |-> chunks[i].metadata.product_id]

Exit(status) == /\ pc' = "exited"
                /\ exit_code' = Some(status)

\* ------------------------------------------------------------------- __main__
\* the three environment checks, then the call of import_products
Main ==
    /\ pc = "main"
    /\ IF \/ SUPABASE_URL = "YOUR_SUPABASE_URL"
          \/ SUPABASE_KEY = "YOUR_SERVICE_ROLE_KEY"
          \/ OPENAI_API_KEY = "YOUR_OPENAI_KEY"
       THEN Exit(1)
       ELSE /\ pc' = "import_products"
            /\ UNCHANGED exit_code
    /\ UNCHANGED <<env, db, BATCH_SIZE, cursor, result, batch_chunks,
                   processed, inserted, calls, sink>>

\* ------------------------------------------------------------- import_products
\* steps 1-4 up to cursor.execute: a missing database file makes the function
\* return, and the script then ends normally
Connect ==
    /\ pc = "import_products"
    /\ IF ~env.sqlite_db_exists
       THEN /\ Exit(0)
            /\ UNCHANGED <<cursor, result, batch_chunks, processed, inserted>>
       ELSE /\ \E rows \in QueryResults :
                 /\ cursor' = rows
                 /\ result' = rows
            /\ batch_chunks' = <<>>
            /\ processed' = 0
            /\ inserted' = 0
            /\ pc' = "loop"
            /\ UNCHANGED exit_code
    /\ UNCHANGED <<env, db, BATCH_SIZE, calls, sink>>

\* the flush test with > for >=
BatchFull_OffByOne(chunks) == Len(chunks) > BATCH_SIZE

\* `if len(batch_chunks) >= BATCH_SIZE`
BatchFull(chunks) == Len(chunks) >= BATCH_SIZE

\* one iteration of `for row in cursor` up to the batch-size test
ProcessRow ==
    /\ pc = "loop"
    /\ cursor # <<>>
    /\ LET row == db[Head(cursor)]
       IN \E variants \in get_product_variants(row.oe_nummer) :
            /\ batch_chunks' = Append(batch_chunks, create_chunk(row, variants))
            /\ pc' = IF BatchFull(Append(batch_chunks, create_chunk(row, variants)))
                     THEN "embed" ELSE "loop"
    /\ cursor' = Tail(cursor)
    /\ processed' = processed + 1
    /\ UNCHANGED <<env, db, BATCH_SIZE, exit_code, result, inserted, calls, sink>>

\* no flush of the rows left over after the loop
HasRemaining_Never(chunks) == FALSE

\* `if batch_chunks:` after the loop
HasRemaining(chunks) == chunks # <<>>

\* the cursor is exhausted: `if batch_chunks:` decides on a final batch
EndOfRows ==
    /\ pc = "loop"
    /\ cursor = <<>>
    /\ pc' = IF HasRemaining(batch_chunks) THEN "embed_final" ELSE "summary"
    /\ UNCHANGED <<env, db, BATCH_SIZE, exit_code, cursor, result, batch_chunks,
                   processed, inserted, calls, sink>>

\* generate_embeddings: one request with the texts of the batch; the i-th
\* vector of the response goes to the i-th chunk.  An exception of the API
\* is not caught anywhere and ends the process.
generate_embeddings ==
    /\ pc \in {"embed", "embed_final"}
    /\ \E ok \in BOOLEAN :
         LET texts == [i \in 1..Len(batch_chunks) |-> batch_chunks[i].content]
             response == EmbeddingsCreate(texts)
         IN /\ calls' = Append(calls, [op |-> "embeddings.create",
                                       ids |-> ChunkIds(batch_chunks),
                                       payload |-> texts,
                                       ok |-> ok])
            /\ IF ok
               THEN /\ batch_chunks' = [i \in 1..Len(batch_chunks) |->
                           [batch_chunks[i] EXCEPT !.embedding = Some(response[i])]]
                    /\ pc' = IF pc = "embed" THEN "insert" ELSE "insert_final"
                    /\ UNCHANGED exit_code
               ELSE /\ Exit(1)
                    /\ UNCHANGED batch_chunks
    /\ UNCHANGED <<env, db, BATCH_SIZE, cursor, result, processed, inserted, sink>>

Records(chunks) ==
    [i \in 1..Len(chunks) |->
        [title |-> chunks[i].title,
         content |-> chunks[i].content,
         embedding |-> chunks[i].embedding,
         metadata |-> chunks[i].metadata,
         source |-> "volvo_sqlite"]]

\* the result of the insert is not looked at
InsertFailed_Never(data) == FALSE

\* `if not result.data: raise`
InsertFailed(data) == data = <<>>

\* insert_to_supabase and the bookkeeping after it: one bulk insert; an empty
\* result raises, which ends the process; inside the loop the batch is reset
insert_to_supabase ==
    /\ pc \in {"insert", "insert_final"}
    /\ \E ok \in BOOLEAN :
         LET records == Records(batch_chunks)
             data == IF ok THEN records ELSE <<>>
         IN /\ calls' = Append(calls, [op |-> "insert",
                                       ids |-> ChunkIds(batch_chunks),
                                       payload |-> records,
                                       ok |-> ok])
            /\ sink' = sink \o data
            /\ IF InsertFailed(data)
               THEN /\ Exit(1)
                    /\ UNCHANGED <<inserted, batch_chunks>>
               ELSE /\ inserted' = inserted + Len(data)
                    /\ batch_chunks' = IF pc = "insert" THEN <<>> ELSE batch_chunks
                    /\ pc' = IF pc = "insert" THEN "loop" ELSE "summary"
                    /\ UNCHANGED exit_code
    /\ UNCHANGED <<env, db, BATCH_SIZE, cursor, result, processed>>

\* step 5: the success rate divides by processed
Summary ==
    /\ pc = "summary"
    /\ IF processed = 0 THEN Exit(1) ELSE Exit(0)
    /\ UNCHANGED <<env, db, BATCH_SIZE, cursor, result, batch_chunks,
                   processed, inserted, calls, sink>>

Next == \/ Main
        \/ Connect
        \/ ProcessRow
        \/ EndOfRows
        \/ generate_embeddings
        \/ insert_to_supabase
        \/ Summary

\* ------------------------------------------------------------------ inputs
EnvValues(name) == {None, Some("value-of-" \o name)}

Environments ==
    {[SUPABASE_URL |-> u, SUPABASE_SERVICE_ROLE_KEY |-> k, OPENAI_API_KEY |-> o,
      sqlite_db_exists |-> e] :
        u \in EnvValues("SUPABASE_URL"), k \in EnvValues("SUPABASE_SERVICE_ROLE_KEY"),
        o \in EnvValues("OPENAI_API_KEY"), e \in BOOLEAN}

ValidEnvironment ==
    [SUPABASE_URL |-> Some("value-of-SUPABASE_URL"),
     SUPABASE_SERVICE_ROLE_KEY |-> Some("value-of-SUPABASE_SERVICE_ROLE_KEY"),
     OPENAI_API_KEY |-> Some("value-of-OPENAI_API_KEY"),
     sqlite_db_exists |-> TRUE]

Row(id, oe, hf, status, nn, sv, eng, kl, fr, vp, cvr, fordon, price) ==
    [id |-> id, oe_nummer |-> oe, has_fitments |-> hf, translation_status |-> status,
     normalized_name |-> nn, swedish_translation |-> sv, skandix_name_eng |-> eng,
     kl_namn |-> kl, folkrace_namn |-> fr, vp_namn |-> vp, cvr_namn |-> cvr,
     fordon_namn |-> fordon, skandix_price |-> price]

\* a row with only the part number and the two flags chosen
PlainRow(id, oe, hf, status) ==
    Row(id, oe, hf, status, Some("Bromsskiva"), None, None, None, None, None,
        None, None, Some(100 + id))

Start(e, d, b) ==
    /\ env = e
    /\ db = d
    /\ BATCH_SIZE = b
    /\ pc = "main"
    /\ exit_code = None
    /\ cursor = <<>>
    /\ result = <<>>
    /\ batch_chunks = <<>>
    /\ processed = 0
    /\ inserted = 0
    /\ calls = <<>>
    /\ sink = <<>>

\* the tables of n rows with ids 1..n whose row i is one of rowsOf[i]
RECURSIVE Tables(_, _)
Tables(n, rowsOf) ==
    IF n = 0 THEN {<<>>}
    ELSE {Append(t, r) : t \in Tables(n - 1, rowsOf), r \in rowsOf[n]}

Flags == {<<1, Some("pending")>>, <<0, Some("verified")>>, <<0, Some("pending")>>}

\* row id opens part number id or joins part number 1
PipelineRows(id) == {PlainRow(id, oe, fl[1], fl[2]) : oe \in {1, id}, fl \in Flags}

Init == \E e \in Environments, n \in 0..MaxRows, b \in 1..MaxBatchSize :
            \E d \in Tables(n, [i \in 1..n |-> PipelineRows(i)]) : Start(e, d, b)

Spec == Init /\ [][Next]_vars

\* tables whose rows vary in every key of the ranking, over two part numbers
PartNumbers == {1, 2}
Statuses == {Some("verified"), Some("pending"), None}

SelectRows(id) ==
    {Row(id, oe, hf, st, nn, None, None, None, None, None, None, None, pr) :
        oe \in PartNumbers, hf \in {0, 1}, st \in Statuses,
        nn \in {None, Some("Bromsskiva")}, pr \in {None, Some(100)}}

InitSelect == \E n \in 1..MaxSelectRows :
                  \E d \in Tables(n, [i \in 1..n |-> SelectRows(i)]) : Start(ValidEnvironment, d, MaxBatchSize)

SpecSelect == InitSelect /\ [][Next]_vars

\* one eligible row whose eight name fields vary
NameRows(id) ==
    {Row(id, 1, 1, Some("verified"), nn, sv, eng, kl, fr, vp, cvr, fordon, Some(100)) :
        nn \in {None, Some("NULL"), Some("Rör"), Some("Bromsskiva")},
        sv \in {None, Some("Bromsskiva"), Some("Skivbroms")},
        eng \in {None, Some("Bromsskiva"), Some("Brake disc")},
        kl \in {None, Some("Bromsskiva"), Some("Bromsskiva KL")},
        fr \in {None, Some("Bromsskiva"), Some("Bromsskiva FR")},
        vp \in {None, Some("Bromsskiva"), Some("Bromsskiva VP")},
        cvr \in {None, Some("Bromsskiva"), Some("Bromsskiva CVR")},
        fordon \in {None, Some("Bromsskiva"), Some("Bromsskiva FN")}}

InitNames == \E d \in Tables(1, [i \in {1} |-> NameRows(i)]) : Start(ValidEnvironment, d, 1)

SpecNames == InitNames /\ [][Next]_vars

\* the rows of one part number, varying in eligibility and price
PriceRows(id) ==
    {Row(id, 1, hf, st, Some("Bromsskiva"), None, None, None, None, None, None, None, pr) :
        hf \in {0, 1}, st \in {Some("verified"), Some("pending")},
        pr \in {None, Some(0), Some(100), Some(150)}}

InitPrice == \E n \in 1..MaxVariants :
                 \E d \in Tables(n, [i \in 1..n |-> PriceRows(i)]) : Start(ValidEnvironment, d, 1)

SpecPrice == InitPrice /\ [][Next]_vars

\* =================================================================== claims
N == Len(result)

CeilDiv(n, b) == (n + b - 1) \div b

IsEmbed(c) == c.op = "embeddings.create"
IsInsert(c) == c.op = "insert"

EmbedCalls == SelectSeq(calls, IsEmbed)
InsertCalls == SelectSeq(calls, IsInsert)

NoCallFailed == \A i \in 1..Len(calls) : calls[i].ok

\* the rows of batch k: rows (k-1)*B+1 .. k*B of the stream, cut at its end
BatchRows(k) == SubSeq(result, (k - 1) * BATCH_SIZE + 1, Min(k * BATCH_SIZE, N))

SinkIds == [i \in 1..Len(sink) |-> sink[i].metadata.product_id]

\* the records of the insert calls before call i
RECURSIVE Committed(_)
Committed(i) ==
    IF i <= 1 THEN <<>>
    ELSE Committed(i - 1) \o (IF IsInsert(calls[i - 1]) /\ calls[i - 1].ok
                              THEN calls[i - 1].payload ELSE <<>>)

\* every chunk the run has produced so far, as metadata
ProducedMetadata ==
    {batch_chunks[i].metadata : i \in 1..Len(batch_chunks)}
        \cup {sink[i].metadata : i \in 1..Len(sink)}

ProducedContent ==
    {batch_chunks[i].content : i \in 1..Len(batch_chunks)}
        \cup {sink[i].content : i \in 1..Len(sink)}

\* C1: the k-th embedding request carries the texts of rows (k-1)B+1..kB of
\* the stream in row order: B texts for every request but the last, the rest
\* for the last, never none; a run without failed call that exits 0 on N >= 1
\* rows has issued ceil(N/B) requests; the i-th vector returned is the one
\* stored with the i-th chunk of the request.
C1_EmbeddingBatches ==
    /\ \A k \in 1..Len(EmbedCalls) :
         LET req == EmbedCalls[k]
         IN /\ req.ids = BatchRows(k)
            /\ Len(req.payload) = Len(req.ids)
            /\ req.payload # <<>>
            /\ Len(req.payload) = IF k < CeilDiv(N, BATCH_SIZE) THEN BATCH_SIZE
                                  ELSE N - BATCH_SIZE * (CeilDiv(N, BATCH_SIZE) - 1)
    /\ \A i \in 1..Len(calls) :
         IsInsert(calls[i]) =>
            \A j \in 1..Len(calls[i].payload) :
               /\ calls[i].payload[j].content = calls[i - 1].payload[j]
               /\ calls[i].payload[j].embedding =
                      Some(EmbeddingsCreate(calls[i - 1].payload)[j])
    /\ (exit_code = Some(0) /\ N >= 1 /\ NoCallFailed) =>
            Len(EmbedCalls) = CeilDiv(N, BATCH_SIZE)

C1_Witness ==
    /\ exit_code = Some(0)
    /\ NoCallFailed
    /\ N = 3
    /\ BATCH_SIZE = 2
    /\ Len(EmbedCalls) = 2
    /\ Len(EmbedCalls[1].payload) = 2
    /\ Len(EmbedCalls[2].payload) = 1
    /\ sink[2].embedding = Some(Embedding(EmbedCalls[1].payload[2]))

\* C2: the external calls alternate embedding request, insert, embedding
\* request, insert, ...; each insert carries the batch of the request before
\* it, which succeeded; the sink holds the inserted records in stream order,
\* none twice; a run without failed call that exits 0 has written every row
\* of the stream exactly once with one insert per batch.
C2_OneInsertPerBatch ==
    /\ \A i \in 1..Len(calls) :
         /\ calls[i].op = IF i % 2 = 1 THEN "embeddings.create" ELSE "insert"
         /\ i % 2 = 0 => /\ calls[i - 1].ok
                         /\ calls[i].ids = calls[i - 1].ids
                         /\ calls[i].ids = BatchRows(i \div 2)
    /\ sink = Committed(Len(calls) + 1)
    /\ SinkIds = Take(result, Len(sink))
    /\ \A i, j \in 1..Len(sink) : i # j => SinkIds[i] # SinkIds[j]
    /\ (exit_code = Some(0) /\ NoCallFailed) =>
            /\ SinkIds = result
            /\ Len(InsertCalls) = CeilDiv(N, BATCH_SIZE)
            /\ Len(InsertCalls) = Len(EmbedCalls)

C2_Witness ==
    /\ exit_code = Some(0)
    /\ NoCallFailed
    /\ Len(InsertCalls) = 2
    /\ Len(sink) = 3
    /\ SinkIds = result

\* C3: a failed call (embedding request or insert) of batch k is the last
\* call of the run, the process has exited with status 1, and the sink holds
\* exactly the records inserted for batches 1..k-1.
C3_FailureIsFatal ==
    \A i \in 1..Len(calls) :
        ~calls[i].ok =>
            LET k == (i + 1) \div 2
            IN /\ i = Len(calls)
               /\ pc = "exited"
               /\ exit_code = Some(1)
               /\ sink = Committed(i)
               /\ SinkIds = Take(result, BATCH_SIZE * (k - 1))
               /\ Len(SelectSeq(SubSeq(calls, 1, i - 1), IsInsert)) = k - 1

C3_Witness ==
    /\ Len(calls) = 4
    /\ ~calls[4].ok
    /\ IsInsert(calls[4])
    /\ Len(sink) = 2
    /\ exit_code = Some(1)

\* C5: a row without fitments whose translation status is not verified is
\* neither the canonical row nor a listed variant of any chunk produced.
C5_IneligibleNeverInOutput ==
    \A r \in Rows :
        (r.has_fitments # 1 /\ r.translation_status # Some("verified")) =>
            \A m \in ProducedMetadata :
                /\ m.product_id # r.id
                /\ ~InSeq(r.id, m.variant_ids)

\* an ineligible row shares the part number of a written chunk, and another
\* ineligible row is the best-ranked row of its own part number
C5_Witness ==
    /\ exit_code = Some(0)
    /\ \E r \in Rows : /\ ~Eligible(r)
                       /\ \E i \in 1..Len(sink) : sink[i].metadata.oe_nummer = r.oe_nummer
    /\ \E r \in Rows : /\ ~Eligible(r)
                       /\ r \in BestRows(r.oe_nummer)

\* C6: variant_ids of every chunk contains the chunk's product_id, and
\* variant_count is the length of variant_ids, hence at least 1.
C6_VariantIdsContainCanonical ==
    \A m \in ProducedMetadata :
        /\ InSeq(m.product_id, m.variant_ids)
        /\ m.variant_count = Len(m.variant_ids)
        /\ m.variant_count >= 1

C6_Witness ==
    \E i \in 1..Len(sink) :
        /\ sink[i].metadata.variant_count >= 2
        /\ InSeq(sink[i].metadata.product_id, sink[i].metadata.variant_ids)
        /\ sink[i].metadata.variant_ids[1] # sink[i].metadata.product_id

\* C7: after a startup precondition failure (a required variable unset or
\* the database file missing) the process has exited non-zero without any
\* embedding request or insert.
C7_StartupFailureExitsNonZero ==
    (/\ exit_code # None
     /\ \/ env.SUPABASE_URL = None
        \/ env.SUPABASE_SERVICE_ROLE_KEY = None
        \/ env.OPENAI_API_KEY = None
        \/ ~env.sqlite_db_exists) =>
        /\ exit_code # Some(0)
        /\ calls = <<>>

\* C8: a run with a valid configuration, an existing database file and no
\* failed call that has ended has exited 0; with no canonical row it has
\* made no call.
C8_CleanRunExitsZero ==
    (/\ exit_code # None
     /\ env = ValidEnvironment
     /\ NoCallFailed) =>
        /\ exit_code = Some(0)
        /\ N = 0 => calls = <<>>

\* every chunk produced so far
ProducedChunks ==
    {[content |-> batch_chunks[i].content, metadata |-> batch_chunks[i].metadata] :
        i \in 1..Len(batch_chunks)}
        \cup {[content |-> sink[i].content, metadata |-> sink[i].metadata] :
                i \in 1..Len(sink)}

QueryHasRun == pc \in {"loop", "embed", "insert", "embed_final", "insert_final", "summary"}

Streamed(oe) == {i \in 1..N : db[result[i]].oe_nummer = oe}

\* C4: once the source query has run, every part number with an eligible row
\* has exactly one row in the stream (no part number has more), and that row
\* precedes every other row of the part number under has-fitments, verified,
\* normalized name present, price present, then lower id.
C4_CanonicalByPrecedenceThenId ==
    QueryHasRun =>
        \A oe \in {r.oe_nummer : r \in Rows} :
            /\ Cardinality(Streamed(oe)) <= 1
            /\ (\E r \in Group(oe) : Eligible(r)) =>
                  /\ Cardinality(Streamed(oe)) = 1
                  /\ \A i \in Streamed(oe) : \A q \in Group(oe) \ {db[result[i]]} :
                        \/ RankedBefore(db[result[i]], q)
                        \/ /\ ~RankedBefore(q, db[result[i]])
                           /\ result[i] < q.id

NameFields == <<"normalized_name", "swedish_translation", "skandix_name_eng">>
                  \o CatalogFields

\* C9: the name list of every chunk has at most 5 names, none twice, none
\* "NULL" or of length <= 3, starts with the primary display name, and lists
\* its names in the priority order of the fields they come from.
C9_NameList ==
    \A c \in ProducedChunks :
        LET ns == c.content.names_section
            row == db[c.metadata.product_id]
        IN /\ Len(ns) <= 5
           /\ \A i, j \in 1..Len(ns) : i # j => ns[i] # ns[j]
           /\ \A i \in 1..Len(ns) : ns[i] # "NULL" /\ Len(ns[i]) > 3
           /\ ns[1] = c.content.primary_name
           /\ \E f \in [1..Len(ns) -> 1..Len(NameFields)] :
                 /\ \A i \in 1..Len(ns) : row[NameFields[f[i]]] = Some(ns[i])
                 /\ \A i, j \in 1..Len(ns) : i < j => f[i] < f[j]

\* the variants of a chunk and those of them that have a price
VariantRows(c) == {db[c.metadata.variant_ids[i]] : i \in 1..Len(c.metadata.variant_ids)}
WithPrice(c) == {v \in VariantRows(c) : v.skandix_price # None}
LowestPrice(c) == CHOOSE p \in {v.skandix_price[1] : v \in WithPrice(c)} :
                      \A v \in WithPrice(c) : p <= v.skandix_price[1]
HighestPrice(c) == CHOOSE p \in {v.skandix_price[1] : v \in WithPrice(c)} :
                       \A v \in WithPrice(c) : p >= v.skandix_price[1]

\* C10: the price line is "Pris saknas" when no variant has a price, the
\* price when exactly one has, else "Från <lowest> SEK (finns N varianter)"
\* with N = variant_count = the entries of the variant listing; price_from and
\* price_to are the lowest and highest variant price, null exactly with
\* "Pris saknas".
C10_PriceSummary ==
    \A c \in ProducedChunks :
        LET price == c.content.price
            n == Cardinality(WithPrice(c))
        IN /\ n = 0 => price = PriceText("Pris saknas", None, None)
           /\ n = 1 => price = PriceText("{:.2f} SEK", Some(LowestPrice(c)), None)
           /\ n > 1 => /\ price = PriceText("Från {:.2f} SEK (finns {} varianter)",
                                           Some(LowestPrice(c)),
                                           Some(c.metadata.variant_count))
                       /\ Len(c.content.variants_section) = c.metadata.variant_count
           /\ n > 0 => /\ c.metadata.price_from = Some(LowestPrice(c))
                       /\ c.metadata.price_to = Some(HighestPrice(c))
           /\ (c.metadata.price_from = None /\ c.metadata.price_to = None)
                 <=> price.form = "Pris saknas"
           /\ (c.metadata.price_from = None) <=> (c.metadata.price_to = None)

====
